---- MODULE Spec2Model ----
(***************************************************************************)
(* The USB camera service of scripts/run_usb_camera_api.py: the            *)
(* FrameGrabber (enabled switch, driver, acquisition loop thread, stop     *)
(* event, lock and published slot), the USBCameraDriver capture handle,    *)
(* the module-level boot start and the FastAPI request handlers that run   *)
(* concurrently in the server's thread pool.  One step per statement of a  *)
(* handler or of the loop; blocking calls (join, read, lock) are split at  *)
(* the point where they block.                                             *)
(***************************************************************************)
EXTENDS Integers, FiniteSets, Sequences, TLC

\* ------------------------------------------------------------------ bounds
NumHandlers == 2      \* request handlers running at once
MaxRequests == 2      \* requests the service accepts
MaxFrames == 2        \* captures that yield a Measurement
NumStreams == 2       \* clients connected to /camera/stream at once

\* boot and every request create at most one driver and one thread each
MaxStarts == MaxRequests + 1

Boot == 0
Handlers == 1..NumHandlers
Procs == {Boot} \cup Handlers
Drivers == 1..MaxStarts
ThreadIds == 1..MaxStarts
Streams == 1..NumStreams

\* Python's None for the driver and thread references
None == 0
\* latest_frame = None / latest_meta = {}
Empty == <<0, 0>>
\* the lock is free
Free == <<"free", 0>>

VARIABLES
    enabled,        \* FrameGrabber.enabled
    running,        \* FrameGrabber.running
    driver,         \* FrameGrabber.driver: a driver instance or None
    thread,         \* FrameGrabber.thread: a thread object or None
    stop_evt,       \* FrameGrabber.stop_evt
    lock,           \* FrameGrabber.lock: Free or its holder
    latest_frame,   \* FrameGrabber.latest_frame
    latest_meta,    \* FrameGrabber.latest_meta
    cap,            \* per driver instance: its capture handle (_cap)
    opens,          \* per driver instance: calls of open() made on it
    ndrv,           \* driver instances constructed so far
    nthr,           \* thread objects constructed so far
    nframes,        \* Measurements captured so far
    tpc,            \* per thread object: where its _loop is
    rd,             \* per thread: the driver whose read() it is inside
    m,              \* per thread: the Measurement read() returned
    hpc,            \* per handler: where it is
    req,            \* per handler: the request it serves
    flag,           \* per handler: set_enabled's argument
    jt,             \* per handler: the thread join() waits for
    od,             \* per handler: the driver its start() opened
    resp,           \* per handler: the HTTP status it answered
    fbody,          \* per handler: the bytes /camera/frame answered
    sEn,            \* per handler: "enabled" as /health reported it
    sRun,           \* per handler: "running" as /health reported it
    smeta,          \* per handler: the metadata /camera/status answered
    nreq,           \* requests accepted so far
    restartDrv,     \* history: driver opened by the last start() that returned
                    \*   normally after a completed stop()
    hadStop,        \* history: a stop() has completed
    pubSinceStart,  \* history: a frame was published since that start()
    excSince,       \* history: read() raised in the loop, no start() since
    seqWant,        \* history: last distinct set_enabled was (true, opened)
    spc,            \* per stream: where /camera/stream and its generator are
    snaps,          \* history, per handler: the grabber states (enabled,
                    \*   running, latest_meta) that existed while it served
                    \*   /camera/status and agree with what it has read
    dres            \* the last call a direct caller made on a driver
                    \*   instance: <<instance, outcome>>

gvars == <<enabled, running, driver, thread, stop_evt>>
slot == <<latest_frame, latest_meta>>
dvars == <<cap, opens, ndrv>>
tvars == <<nthr, tpc, rd, m, nframes>>
hlocals == <<flag, jt, od, resp, fbody, sEn, sRun, smeta>>
hist == <<restartDrv, hadStop, pubSinceStart, excSince, seqWant>>
xvars == <<spc, snaps, dres>>
vars == <<gvars, lock, slot, dvars, tvars, hpc, req, hlocals, nreq, hist,
          xvars>>

\* ----------------------------------------------------------- Measurement
\* Measurement(data=..., meta=...) built by USBCameraDriver.read(): the
\* bytes and the metadata of capture number s on driver instance d.
Measurement(d, s) == [data |-> <<d, s>>, meta |-> <<d, s>>]
NoMeasurement == [data |-> Empty, meta |-> Empty]

\* threading.Thread.is_alive(): started and not yet finished
IsAlive(t) == tpc[t] \notin {"unused", "created", "dead"}

\* `with self.lock:` can enter only when nobody holds the lock
CanAcquireMissing(l) == TRUE
CanAcquire(l) == l = Free

\* USBCameraDriver.read(), usb_camera.py 106-107: `if self._cap is None`
\* raises RuntimeError
NotOpenMissing(c) == FALSE
NotOpen(c) == c # "opened"

\* USBCameraDriver.close(): releases the handle when there is one
CloseCap(c) == IF c = "opened" THEN "closed" ELSE c

\* --------------------------------------------------------------- Init
\* State after `grabber = FrameGrabber()`; DEFAULT_ENABLED comes from the
\* environment, so both values are possible.  The boot process then runs the
\* module-level `if grabber.enabled: grabber.start()`.
Init ==
    /\ enabled \in BOOLEAN
    /\ running = FALSE
    /\ driver = None
    /\ thread = None
    /\ stop_evt = FALSE
    /\ lock = Free
    /\ latest_frame = Empty
    /\ latest_meta = Empty
    /\ cap = [d \in Drivers |-> "unused"]
    /\ opens = [d \in Drivers |-> 0]
    /\ ndrv = 0
    /\ nthr = 0
    /\ nframes = 0
    /\ tpc = [t \in ThreadIds |-> "unused"]
    /\ rd = [t \in ThreadIds |-> None]
    /\ m = [t \in ThreadIds |-> NoMeasurement]
    /\ hpc = [h \in Procs |-> IF h = Boot THEN "boot" ELSE "idle"]
    /\ req = [h \in Procs |-> IF h = Boot THEN "boot" ELSE "none"]
    /\ flag = [h \in Procs |-> FALSE]
    /\ jt = [h \in Procs |-> None]
    /\ od = [h \in Procs |-> None]
    /\ resp = [h \in Procs |-> 0]
    /\ fbody = [h \in Procs |-> Empty]
    /\ sEn = [h \in Procs |-> "-"]
    /\ sRun = [h \in Procs |-> "-"]
    /\ smeta = [h \in Procs |-> Empty]
    /\ nreq = 0
    /\ restartDrv = None
    /\ hadStop = FALSE
    /\ pubSinceStart = FALSE
    /\ excSince = FALSE
    /\ seqWant = FALSE
    /\ spc = [s \in Streams |-> "closed"]
    /\ snaps = [h \in Procs |-> {}]
    /\ dres = <<None, "-">>

\* where a handler of GET /camera/status can be (camera_status, 127-137)
StatusPcs == {"cs_en", "cs_run", "cs_lock", "cs_read"}

\* history: whether the grabber state st = (enabled, running, latest_meta)
\* agrees with what handler h has read of it so far
Agrees(h, st) ==
    /\ sEn[h] = "-" \/ (sEn[h] = "T") = st[1]
    /\ sRun[h] = "-" \/ (sRun[h] = "T") = st[2]

\* history: a step that writes enabled, running or latest_meta adds the
\* grabber state it produces to the states every /camera/status in
\* progress could be a snapshot of
Observe ==
    snaps' = [h \in Procs |->
                IF /\ hpc[h] \in StatusPcs
                   /\ Agrees(h, <<enabled', running', latest_meta'>>)
                  THEN snaps[h] \cup {<<enabled', running', latest_meta'>>}
                  ELSE snaps[h]]

\* ------------------------------------------------- FrameGrabber._loop
\* line 42: assert self.driver is not None (an AssertionError ends the
\* thread before the try block, so running is not touched)
LoopAssert(t) ==
    /\ tpc[t] = "l_assert"
    /\ tpc' = [tpc EXCEPT ![t] = IF driver = None THEN "dead" ELSE "l_run"]
    /\ UNCHANGED <<gvars, lock, slot, dvars, nthr, rd, m, nframes, hpc, req,
                   hlocals, nreq, restartDrv, hadStop, pubSinceStart,
                   excSince, seqWant, xvars>>

\* line 43: self.running = True
LoopRun(t) ==
    /\ tpc[t] = "l_run"
    /\ running' = TRUE
    /\ tpc' = [tpc EXCEPT ![t] = "l_while"]
    /\ UNCHANGED <<enabled, driver, thread, stop_evt, lock, slot, dvars, nthr,
                   rd, m, nframes, hpc, req, hlocals, nreq, hist, spc, dres>>
    /\ Observe

\* line 45: while not self.stop_evt.is_set()
LoopWhile(t) ==
    /\ tpc[t] = "l_while"
    /\ tpc' = [tpc EXCEPT ![t] = IF stop_evt THEN "l_finally" ELSE "l_call"]
    /\ UNCHANGED <<gvars, lock, slot, dvars, nthr, rd, m, nframes, hpc, req,
                   hlocals, nreq, hist, xvars>>

\* line 46, entering self.driver.read(): AttributeError when self.driver is
\* None, RuntimeError (usb_camera.py 106-107) when its _cap is None;
\* otherwise the thread is inside read() (pacing sleep and capture).
LoopCall(t) ==
    /\ tpc[t] = "l_call"
    /\ IF driver = None \/ NotOpen(cap[driver])
         THEN /\ tpc' = [tpc EXCEPT ![t] = "l_finally"]
              /\ excSince' = TRUE
              /\ rd' = rd
         ELSE /\ tpc' = [tpc EXCEPT ![t] = "l_read"]
              /\ rd' = [rd EXCEPT ![t] = driver]
              /\ UNCHANGED excSince
    /\ UNCHANGED <<gvars, lock, slot, dvars, nthr, m, nframes, hpc, req,
                   hlocals, nreq, restartDrv, hadStop, pubSinceStart, seqWant,
                   xvars>>

\* line 46, read() returns a Measurement (usb_camera.py 116-125).  When the
\* handle was released under the read, what the capture does is undefined:
\* every outcome of read() stays possible.
LoopReadFrame(t) ==
    /\ tpc[t] = "l_read"
    /\ nframes < MaxFrames
    /\ nframes' = nframes + 1
    /\ m' = [m EXCEPT ![t] = Measurement(rd[t], nframes + 1)]
    /\ rd' = [rd EXCEPT ![t] = None]
    /\ tpc' = [tpc EXCEPT ![t] = "l_pub"]
    /\ UNCHANGED <<gvars, lock, slot, dvars, nthr, hpc, req, hlocals, nreq,
                   hist, xvars>>

LoopReadNoneClears(t) ==
    /\ tpc[t] = "l_read"
    /\ rd' = [rd EXCEPT ![t] = None]
    /\ latest_frame' = Empty
    /\ latest_meta' = Empty
    /\ tpc' = [tpc EXCEPT ![t] = "l_sleep"]
    /\ UNCHANGED <<gvars, lock, dvars, nthr, m, nframes, hpc, req, hlocals,
                   nreq, hist, xvars>>

\* line 46-50, read() returns None (usb_camera.py 83-84, 92-93, 117-118):
\* the loop is in time.sleep(0.05)
LoopReadNone(t) ==
    /\ tpc[t] = "l_read"
    /\ rd' = [rd EXCEPT ![t] = None]
    /\ tpc' = [tpc EXCEPT ![t] = "l_sleep"]
    /\ UNCHANGED <<gvars, lock, slot, dvars, nthr, m, nframes, hpc, req,
                   hlocals, nreq, hist, xvars>>

\* line 46, read() raises (assert in _grab_encoded after a release of the
\* handle, or an error of the capture/encode primitive)
LoopReadRaise(t) ==
    /\ tpc[t] = "l_read"
    /\ rd' = [rd EXCEPT ![t] = None]
    /\ tpc' = [tpc EXCEPT ![t] = "l_finally"]
    /\ excSince' = TRUE
    /\ UNCHANGED <<gvars, lock, slot, dvars, nthr, m, nframes, hpc, req,
                   hlocals, nreq, restartDrv, hadStop, pubSinceStart, seqWant,
                   xvars>>

\* line 49-50: the retry sleep ends, continue
LoopSleep(t) ==
    /\ tpc[t] = "l_sleep"
    /\ tpc' = [tpc EXCEPT ![t] = "l_while"]
    /\ UNCHANGED <<gvars, lock, slot, dvars, nthr, rd, m, nframes, hpc, req,
                   hlocals, nreq, hist, xvars>>

\* line 51-52: with self.lock: self.latest_frame = m.data
LoopPublishFrame(t) ==
    /\ tpc[t] = "l_pub"
    /\ CanAcquire(lock)
    /\ lock' = <<"loop", t>>
    /\ latest_frame' = m[t].data
    /\ pubSinceStart' = TRUE
    /\ tpc' = [tpc EXCEPT ![t] = "l_pub2"]
    /\ UNCHANGED <<gvars, latest_meta, dvars, nthr, rd, m, nframes, hpc, req,
                   hlocals, nreq, restartDrv, hadStop, excSince, seqWant,
                   xvars>>

LoopPublishMetaKeepsLock(t) ==
    /\ tpc[t] = "l_pub2"
    /\ latest_meta' = m[t].meta
    /\ m' = [m EXCEPT ![t] = NoMeasurement]
    /\ tpc' = [tpc EXCEPT ![t] = "l_while"]
    /\ UNCHANGED <<gvars, lock, latest_frame, dvars, nthr, rd, nframes, hpc,
                   req, hlocals, nreq, hist, spc, dres>>
    /\ Observe

\* line 53: self.latest_meta = m.meta, and the with block releases the lock
LoopPublishMeta(t) ==
    /\ tpc[t] = "l_pub2"
    /\ latest_meta' = m[t].meta
    /\ lock' = Free
    /\ m' = [m EXCEPT ![t] = NoMeasurement]
    /\ tpc' = [tpc EXCEPT ![t] = "l_while"]
    /\ UNCHANGED <<gvars, latest_frame, dvars, nthr, rd, nframes, hpc, req,
                   hlocals, nreq, hist, spc, dres>>
    /\ Observe

\* line 54-55: finally: self.running = False; the thread ends
LoopFinally(t) ==
    /\ tpc[t] = "l_finally"
    /\ running' = FALSE
    /\ tpc' = [tpc EXCEPT ![t] = "dead"]
    /\ UNCHANGED <<enabled, driver, thread, stop_evt, lock, slot, dvars, nthr,
                   rd, m, nframes, hpc, req, hlocals, nreq, hist, spc, dres>>
    /\ Observe

Loop(t) ==
    \/ LoopAssert(t)
    \/ LoopRun(t)
    \/ LoopWhile(t)
    \/ LoopCall(t)
    \/ LoopReadFrame(t)
    \/ LoopReadNone(t)
    \/ LoopReadRaise(t)
    \/ LoopSleep(t)
    \/ LoopPublishFrame(t)
    \/ LoopPublishMeta(t)
    \/ LoopFinally(t)

\* ------------------------------------------------- how a handler ends
\* An exception leaving start()/stop(): camera_enable (150-151) and
\* camera_reopen (209-210) turn it into a 500; the boot code (114-116)
\* prints a warning and goes on.
Raise(h) ==
    /\ hpc' = [hpc EXCEPT ![h] = "done"]
    /\ resp' = [resp EXCEPT ![h] = 500]

\* ------------------------------------------------- FrameGrabber.start
\* line 72-73: if self.thread and self.thread.is_alive(): return
StartCheck(h) ==
    /\ hpc[h] = "st_check"
    /\ hpc' = [hpc EXCEPT ![h] =
                 IF thread # None /\ IsAlive(thread) THEN "ret" ELSE "st_clear"]
    /\ UNCHANGED <<gvars, lock, slot, dvars, tvars, req, hlocals, nreq, hist,
                   xvars>>

\* line 74: self.stop_evt.clear()
StartClear(h) ==
    /\ hpc[h] = "st_clear"
    /\ stop_evt' = FALSE
    /\ hpc' = [hpc EXCEPT ![h] = "st_new"]
    /\ UNCHANGED <<enabled, running, driver, thread, lock, slot, dvars, tvars,
                   req, hlocals, nreq, hist, xvars>>

\* line 58-61: self.driver = USBCameraDriver(...), a fresh instance whose
\* _cap is None (usb_camera.py 51)
OpenDriverNew(h) ==
    /\ hpc[h] = "st_new"
    /\ ndrv < MaxStarts
    /\ ndrv' = ndrv + 1
    /\ cap' = [cap EXCEPT ![ndrv + 1] = "unopened"]
    /\ driver' = ndrv + 1
    /\ hpc' = [hpc EXCEPT ![h] = "st_open"]
    /\ UNCHANGED <<enabled, running, thread, stop_evt, lock, slot, opens,
                   tvars, req, hlocals, nreq, hist, xvars>>

\* line 62: self.driver.open() succeeds (usb_camera.py 55-78): the instance
\* self.driver refers to now holds a capture handle
OpenDriverOk(h) ==
    /\ hpc[h] = "st_open"
    /\ driver # None
    /\ cap' = [cap EXCEPT ![driver] = "opened"]
    /\ opens' = [opens EXCEPT ![driver] = @ + 1]
    /\ od' = [od EXCEPT ![h] = driver]
    /\ seqWant' = IF req[h] \in {"enable", "boot"} THEN TRUE ELSE seqWant
    /\ hpc' = [hpc EXCEPT ![h] = "st_thread"]
    /\ UNCHANGED <<gvars, lock, slot, ndrv, tvars, req, flag, jt, resp, fbody,
                   sEn, sRun, smeta, nreq, restartDrv, hadStop, pubSinceStart,
                   excSince, xvars>>

\* line 62: self.driver.open() raises (usb_camera.py 59, 64, 75), or
\* self.driver is None by now (AttributeError); start() propagates it
OpenDriverFail(h) ==
    /\ hpc[h] = "st_open"
    /\ opens' = IF driver = None THEN opens
                ELSE [opens EXCEPT ![driver] = @ + 1]
    /\ Raise(h)
    /\ UNCHANGED <<gvars, lock, slot, cap, ndrv, tvars, req, flag, jt, od,
                   fbody, sEn, sRun, smeta, nreq, hist, xvars>>

\* line 78: self.thread = threading.Thread(target=self._loop, daemon=True)
StartThread(h) ==
    /\ hpc[h] = "st_thread"
    /\ nthr < MaxStarts
    /\ nthr' = nthr + 1
    /\ tpc' = [tpc EXCEPT ![nthr + 1] = "created"]
    /\ thread' = nthr + 1
    /\ hpc' = [hpc EXCEPT ![h] = "st_launch"]
    /\ UNCHANGED <<enabled, running, driver, stop_evt, lock, slot, dvars, rd,
                   m, nframes, req, hlocals, nreq, hist, xvars>>

\* line 79: self.thread.start(); AttributeError when self.thread is None by
\* now, RuntimeError when that thread object was started already
StartLaunch(h) ==
    /\ hpc[h] = "st_launch"
    /\ IF thread # None /\ tpc[thread] = "created"
         THEN /\ tpc' = [tpc EXCEPT ![thread] = "l_assert"]
              /\ hpc' = [hpc EXCEPT ![h] = "ret"]
              /\ restartDrv' = IF hadStop THEN od[h] ELSE restartDrv
              /\ pubSinceStart' = FALSE
              /\ excSince' = FALSE
              /\ resp' = resp
         ELSE /\ Raise(h)
              /\ UNCHANGED <<tpc, restartDrv, pubSinceStart, excSince>>
    /\ od' = [od EXCEPT ![h] = None]
    /\ UNCHANGED <<gvars, lock, slot, dvars, nthr, rd, m, nframes, req, flag,
                   jt, fbody, sEn, sRun, smeta, nreq, hadStop, seqWant,
                   xvars>>

\* -------------------------------------------------- FrameGrabber.stop
\* line 82: self.stop_evt.set()
StopSet(h) ==
    /\ hpc[h] = "sp_set"
    /\ stop_evt' = TRUE
    /\ hpc' = [hpc EXCEPT ![h] = "sp_if"]
    /\ UNCHANGED <<enabled, running, driver, thread, lock, slot, dvars, tvars,
                   req, hlocals, nreq, hist, xvars>>

\* line 83: if self.thread
StopIf(h) ==
    /\ hpc[h] = "sp_if"
    /\ hpc' = [hpc EXCEPT ![h] = IF thread # None THEN "sp_join" ELSE "sp_thread"]
    /\ UNCHANGED <<gvars, lock, slot, dvars, tvars, req, hlocals, nreq, hist,
                   xvars>>

\* line 84, calling self.thread.join(timeout=2.0): AttributeError when
\* self.thread is None by now, RuntimeError when that thread was not started
StopJoin(h) ==
    /\ hpc[h] = "sp_join"
    /\ IF thread # None /\ tpc[thread] # "created"
         THEN /\ jt' = [jt EXCEPT ![h] = thread]
              /\ hpc' = [hpc EXCEPT ![h] = "sp_wait"]
              /\ resp' = resp
         ELSE /\ Raise(h)
              /\ jt' = jt
    /\ UNCHANGED <<gvars, lock, slot, dvars, tvars, req, flag, od, fbody, sEn,
                   sRun, smeta, nreq, hist, xvars>>

\* line 84, join returns because the thread has ended
StopJoined(h) ==
    /\ hpc[h] = "sp_wait"
    /\ tpc[jt[h]] = "dead"
    /\ jt' = [jt EXCEPT ![h] = None]
    /\ hpc' = [hpc EXCEPT ![h] = "sp_thread"]
    /\ UNCHANGED <<gvars, lock, slot, dvars, tvars, req, flag, od, resp,
                   fbody, sEn, sRun, smeta, nreq, hist, xvars>>

\* line 84, join returns because 2.0 s passed: the loop is still blocked
\* inside driver.read() (a capture has no time limit)
StopJoinTimeout(h) ==
    /\ hpc[h] = "sp_wait"
    /\ tpc[jt[h]] = "l_read"
    /\ jt' = [jt EXCEPT ![h] = None]
    /\ hpc' = [hpc EXCEPT ![h] = "sp_thread"]
    /\ UNCHANGED <<gvars, lock, slot, dvars, tvars, req, flag, od, resp,
                   fbody, sEn, sRun, smeta, nreq, hist, xvars>>

\* line 85: self.thread = None
StopThread(h) ==
    /\ hpc[h] = "sp_thread"
    /\ thread' = None
    /\ hpc' = [hpc EXCEPT ![h] = "sp_close"]
    /\ UNCHANGED <<enabled, running, driver, stop_evt, lock, slot, dvars,
                   tvars, req, hlocals, nreq, hist, xvars>>

\* line 65-67: if self.driver is not None: self.driver.close()
\* (usb_camera.py 137-142)
CloseDriver(h) ==
    /\ hpc[h] = "sp_close"
    /\ cap' = IF driver = None THEN cap
              ELSE [cap EXCEPT ![driver] = CloseCap(@)]
    /\ hpc' = [hpc EXCEPT ![h] = "sp_none"]
    /\ UNCHANGED <<gvars, lock, slot, opens, ndrv, tvars, req, hlocals, nreq,
                   hist, xvars>>

CloseDriverKeeps(h) ==
    /\ hpc[h] = "sp_none"
    /\ hpc' = [hpc EXCEPT ![h] = "sp_lock"]
    /\ UNCHANGED <<gvars, lock, slot, dvars, tvars, req, hlocals, nreq, hist,
                   xvars>>

\* line 68-69: finally: self.driver = None
CloseDriverNone(h) ==
    /\ hpc[h] = "sp_none"
    /\ driver' = None
    /\ hpc' = [hpc EXCEPT ![h] = "sp_lock"]
    /\ UNCHANGED <<enabled, running, thread, stop_evt, lock, slot, dvars,
                   tvars, req, hlocals, nreq, hist, xvars>>

\* line 87-88: with self.lock: self.latest_frame = None
StopClearFrame(h) ==
    /\ hpc[h] = "sp_lock"
    /\ CanAcquire(lock)
    /\ lock' = <<"stop", h>>
    /\ latest_frame' = Empty
    /\ hpc' = [hpc EXCEPT ![h] = "sp_meta"]
    /\ UNCHANGED <<gvars, latest_meta, dvars, tvars, req, hlocals, nreq, hist,
                   xvars>>

\* line 89: self.latest_meta = {}, the with block releases the lock and
\* stop() returns: to set_enabled (98), or to camera_reopen (205-207), which
\* sleeps 0.2 s and calls start()
StopClearMeta(h) ==
    /\ hpc[h] = "sp_meta"
    /\ latest_meta' = Empty
    /\ lock' = Free
    /\ hadStop' = TRUE
    /\ hpc' = [hpc EXCEPT ![h] = IF req[h] = "reopen" THEN "st_check" ELSE "ret"]
    /\ UNCHANGED <<gvars, latest_frame, dvars, tvars, req, hlocals, nreq,
                   restartDrv, pubSinceStart, excSince, seqWant, spc, dres>>
    /\ Observe

\* where the generator of an open stream can be (camera_stream.gen)
GenPcs == {"sg_check", "sg_lock", "sg_read", "sg_yield", "sg_sleep"}

\* ------------------------------------------- FrameGrabber.set_enabled
SetEnabledCheckNoReturn(h) ==
    /\ hpc[h] = "se_check"
    /\ hpc' = [hpc EXCEPT ![h] = "se_set"]
    /\ UNCHANGED <<gvars, lock, slot, dvars, tvars, req, hlocals, nreq, hist,
                   xvars>>

\* line 92-93: if flag == self.enabled: return
SetEnabledCheck(h) ==
    /\ hpc[h] = "se_check"
    /\ hpc' = [hpc EXCEPT ![h] = IF flag[h] = enabled THEN "ret" ELSE "se_set"]
    /\ UNCHANGED <<gvars, lock, slot, dvars, tvars, req, hlocals, nreq, hist,
                   xvars>>

\* line 94-98: self.enabled = flag, then start() or stop()
SetEnabledStore(h) ==
    /\ hpc[h] = "se_set"
    /\ enabled' = flag[h]
    /\ seqWant' = FALSE
    /\ hpc' = [hpc EXCEPT ![h] = IF flag[h] THEN "st_check" ELSE "sp_set"]
    /\ UNCHANGED <<running, driver, thread, stop_evt, lock, slot, dvars,
                   tvars, req, hlocals, nreq, restartDrv, hadStop,
                   pubSinceStart, excSince, spc, dres>>
    /\ Observe

\* --------------------------------------------------- boot, line 111-116
BootStart ==
    /\ hpc[Boot] = "boot"
    /\ hpc' = [hpc EXCEPT ![Boot] = IF enabled THEN "st_check" ELSE "done"]
    /\ UNCHANGED <<gvars, lock, slot, dvars, tvars, req, hlocals, nreq, hist,
                   xvars>>

\* start()/stop()/set_enabled() returned normally to boot (113),
\* camera_enable (149: the answer carries grabber.enabled) or
\* camera_reopen (208)
ReturnOk(h) ==
    /\ hpc[h] = "ret"
    /\ hpc' = [hpc EXCEPT ![h] = "done"]
    /\ resp' = [resp EXCEPT ![h] = 200]
    /\ sEn' = [sEn EXCEPT ![h] =
                 IF req[h] = "enable" THEN (IF enabled THEN "T" ELSE "F") ELSE @]
    /\ UNCHANGED <<gvars, lock, slot, dvars, tvars, req, flag, jt, od, fbody,
                   sRun, smeta, nreq, hist, xvars>>

Served == hpc[Boot] = "done"

\* the server hands one more request to a worker: the first idle one (the
\* workers of the pool are interchangeable)
Accept(h) ==
    /\ Served
    /\ hpc[h] = "idle"
    /\ \A g \in Handlers : g < h => hpc[g] # "idle"
    /\ nreq < MaxRequests
    /\ nreq' = nreq + 1

\* ---------------------------------------- PUT /camera/enable, 139-151
CameraEnable(h, f) ==
    /\ Accept(h)
    /\ req' = [req EXCEPT ![h] = "enable"]
    /\ flag' = [flag EXCEPT ![h] = f]
    /\ hpc' = [hpc EXCEPT ![h] = "se_check"]
    /\ UNCHANGED <<gvars, lock, slot, dvars, tvars, jt, od, resp, fbody, sEn,
                   sRun, smeta, hist, xvars>>

\* --------------------------------------- POST /camera/reopen, 197-210
CameraReopen(h) ==
    /\ Accept(h)
    /\ req' = [req EXCEPT ![h] = "reopen"]
    /\ hpc' = [hpc EXCEPT ![h] = "ro_check"]
    /\ UNCHANGED <<gvars, lock, slot, dvars, tvars, hlocals, hist, xvars>>

\* line 202-205: if not grabber.enabled: 409, else grabber.stop()
ReopenCheck(h) ==
    /\ hpc[h] = "ro_check"
    /\ IF enabled
         THEN /\ hpc' = [hpc EXCEPT ![h] = "sp_set"]
              /\ resp' = resp
         ELSE /\ hpc' = [hpc EXCEPT ![h] = "done"]
              /\ resp' = [resp EXCEPT ![h] = 409]
    /\ UNCHANGED <<gvars, lock, slot, dvars, tvars, req, flag, jt, od, fbody,
                   sEn, sRun, smeta, nreq, hist, xvars>>

\* ------------------------------------------ GET /camera/frame, 153-163
CameraFrame(h) ==
    /\ Accept(h)
    /\ req' = [req EXCEPT ![h] = "frame"]
    /\ hpc' = [hpc EXCEPT ![h] = "fr_check"]
    /\ UNCHANGED <<gvars, lock, slot, dvars, tvars, hlocals, hist, xvars>>

\* line 158-159: if not grabber.enabled: 409
FrameCheck(h) ==
    /\ hpc[h] = "fr_check"
    /\ IF enabled
         THEN /\ hpc' = [hpc EXCEPT ![h] = "fr_lock"]
              /\ resp' = resp
         ELSE /\ hpc' = [hpc EXCEPT ![h] = "done"]
              /\ resp' = [resp EXCEPT ![h] = 409]
    /\ UNCHANGED <<gvars, lock, slot, dvars, tvars, req, flag, jt, od, fbody,
                   sEn, sRun, smeta, nreq, hist, xvars>>

\* line 101: get_latest_jpeg() enters `with self.lock`
GetLatestLock(h) ==
    /\ hpc[h] = "fr_lock"
    /\ CanAcquire(lock)
    /\ lock' = <<"read", h>>
    /\ hpc' = [hpc EXCEPT ![h] = "fr_read"]
    /\ UNCHANGED <<gvars, slot, dvars, tvars, req, hlocals, nreq, hist,
                   xvars>>

\* line 102 and 161-163: return self.latest_frame (the lock is released);
\* `if not data` answers 404, otherwise 200 with the bytes
FrameAnswer(data) == IF data = Empty THEN 404 ELSE 200

GetLatestRead(h) ==
    /\ hpc[h] = "fr_read"
    /\ lock' = Free
    /\ fbody' = [fbody EXCEPT ![h] = latest_frame]
    /\ resp' = [resp EXCEPT ![h] = FrameAnswer(latest_frame)]
    /\ hpc' = [hpc EXCEPT ![h] = "done"]
    /\ UNCHANGED <<gvars, slot, dvars, tvars, req, flag, jt, od, sEn, sRun,
                   smeta, nreq, hist, xvars>>

\* ------------------------------------------------ GET /health, 123-125
Health(h) ==
    /\ Accept(h)
    /\ req' = [req EXCEPT ![h] = "health"]
    /\ hpc' = [hpc EXCEPT ![h] = "hl_en"]
    /\ UNCHANGED <<gvars, lock, slot, dvars, tvars, hlocals, hist, xvars>>

\* line 125: "enabled": grabber.enabled
HealthEnabled(h) ==
    /\ hpc[h] = "hl_en"
    /\ sEn' = [sEn EXCEPT ![h] = IF enabled THEN "T" ELSE "F"]
    /\ hpc' = [hpc EXCEPT ![h] = "hl_run"]
    /\ UNCHANGED <<gvars, lock, slot, dvars, tvars, req, flag, jt, od, resp,
                   fbody, sRun, smeta, nreq, hist, xvars>>

\* line 125: "running": grabber.running, and the answer is sent
HealthRunning(h) ==
    /\ hpc[h] = "hl_run"
    /\ sRun' = [sRun EXCEPT ![h] = IF running THEN "T" ELSE "F"]
    /\ resp' = [resp EXCEPT ![h] = 200]
    /\ hpc' = [hpc EXCEPT ![h] = "done"]
    /\ UNCHANGED <<gvars, lock, slot, dvars, tvars, req, flag, jt, od, fbody,
                   sEn, smeta, nreq, hist, xvars>>

\* ---------------------------------------- GET /camera/status, 127-137
CameraStatus(h) ==
    /\ Accept(h)
    /\ req' = [req EXCEPT ![h] = "status"]
    /\ hpc' = [hpc EXCEPT ![h] = "cs_en"]
    /\ snaps' = [snaps EXCEPT ![h] = {<<enabled, running, latest_meta>>}]
    /\ UNCHANGED <<gvars, lock, slot, dvars, tvars, hlocals, hist, spc, dres>>

\* line 130: "enabled": grabber.enabled
StatusEnabled(h) ==
    /\ hpc[h] = "cs_en"
    /\ sEn' = [sEn EXCEPT ![h] = IF enabled THEN "T" ELSE "F"]
    /\ hpc' = [hpc EXCEPT ![h] = "cs_run"]
    /\ snaps' = [snaps EXCEPT ![h] = {st \in @ : st[1] = enabled}]
    /\ UNCHANGED <<gvars, lock, slot, dvars, tvars, req, flag, jt, od, resp,
                   fbody, sRun, smeta, nreq, hist, spc, dres>>

\* line 131: "running": grabber.running
StatusRunning(h) ==
    /\ hpc[h] = "cs_run"
    /\ sRun' = [sRun EXCEPT ![h] = IF running THEN "T" ELSE "F"]
    /\ hpc' = [hpc EXCEPT ![h] = "cs_lock"]
    /\ snaps' = [snaps EXCEPT ![h] = {st \in @ : st[2] = running}]
    /\ UNCHANGED <<gvars, lock, slot, dvars, tvars, req, flag, jt, od, resp,
                   fbody, sEn, smeta, nreq, hist, spc, dres>>

\* line 133 and 105: get_meta() enters `with self.lock`
GetMetaLock(h) ==
    /\ hpc[h] = "cs_lock"
    /\ CanAcquire(lock)
    /\ lock' = <<"read", h>>
    /\ hpc' = [hpc EXCEPT ![h] = "cs_read"]
    /\ UNCHANGED <<gvars, slot, dvars, tvars, req, hlocals, nreq, hist,
                   xvars>>

\* line 106: return dict(self.latest_meta) (the lock is released), and the
\* status is answered
GetMetaRead(h) ==
    /\ hpc[h] = "cs_read"
    /\ lock' = Free
    /\ smeta' = [smeta EXCEPT ![h] = latest_meta]
    /\ resp' = [resp EXCEPT ![h] = 200]
    /\ hpc' = [hpc EXCEPT ![h] = "done"]
    /\ snaps' = [snaps EXCEPT ![h] = {st \in @ : st[3] = latest_meta}]
    /\ UNCHANGED <<gvars, slot, dvars, tvars, req, flag, jt, od, fbody, sEn,
                   sRun, nreq, hist, spc, dres>>

\* the response has been sent; the worker takes the next request
Finish(h) ==
    /\ h # Boot
    /\ hpc[h] = "done"
    /\ hpc' = [hpc EXCEPT ![h] = "idle"]
    /\ req' = [req EXCEPT ![h] = "none"]
    /\ flag' = [flag EXCEPT ![h] = FALSE]
    /\ resp' = [resp EXCEPT ![h] = 0]
    /\ fbody' = [fbody EXCEPT ![h] = Empty]
    /\ sEn' = [sEn EXCEPT ![h] = "-"]
    /\ sRun' = [sRun EXCEPT ![h] = "-"]
    /\ smeta' = [smeta EXCEPT ![h] = Empty]
    /\ snaps' = [snaps EXCEPT ![h] = {}]
    /\ UNCHANGED <<gvars, lock, slot, dvars, tvars, jt, od, nreq, hist,
                   spc, dres>>

\* ----------------------------- USBCameraDriver called directly
\* A caller that owns driver instances and calls their methods one after
\* another, as main() of scripts/run_usb_camera.py does; it calls open() at
\* most once on an instance.
\* usb_camera.py 35-53: USBCameraDriver(...), _cap is None
DriverNew ==
    /\ ndrv < MaxStarts
    /\ ndrv' = ndrv + 1
    /\ cap' = [cap EXCEPT ![ndrv + 1] = "unopened"]
    /\ dres' = <<ndrv + 1, "new">>
    /\ UNCHANGED <<gvars, lock, slot, opens, tvars, hpc, req, hlocals, nreq,
                   hist, spc, snaps>>

\* usb_camera.py 55-78: open() succeeds and stores the handle in _cap
DriverOpenOk(d) ==
    /\ cap[d] = "unopened" /\ opens[d] = 0
    /\ cap' = [cap EXCEPT ![d] = "opened"]
    /\ opens' = [opens EXCEPT ![d] = 1]
    /\ dres' = <<d, "opened">>
    /\ UNCHANGED <<gvars, lock, slot, ndrv, tvars, hpc, req, hlocals, nreq,
                   hist, spc, snaps>>

\* usb_camera.py 59, 64, 75: open() raises before _cap is assigned
DriverOpenFail(d) ==
    /\ cap[d] = "unopened" /\ opens[d] = 0
    /\ opens' = [opens EXCEPT ![d] = 1]
    /\ dres' = <<d, "open_error">>
    /\ UNCHANGED <<gvars, lock, slot, cap, ndrv, tvars, hpc, req, hlocals,
                   nreq, hist, spc, snaps>>

\* usb_camera.py 106-107: read() raises RuntimeError("请先调用 open()")
DriverReadNotOpen(d) ==
    /\ cap[d] # "unused"
    /\ NotOpen(cap[d])
    /\ dres' = <<d, "not_open">>
    /\ UNCHANGED <<gvars, lock, slot, dvars, tvars, hpc, req, hlocals, nreq,
                   hist, spc, snaps>>

\* usb_camera.py 116-125: the capture and the encoding succeed, read()
\* returns a Measurement
DriverReadFrame(d) ==
    /\ cap[d] # "unused"
    /\ ~NotOpen(cap[d])
    /\ cap[d] = "opened"
    /\ nframes < MaxFrames
    /\ nframes' = nframes + 1
    /\ dres' = <<d, "measurement">>
    /\ UNCHANGED <<gvars, lock, slot, dvars, nthr, tpc, rd, m, hpc, req,
                   hlocals, nreq, hist, spc, snaps>>

\* usb_camera.py 83-84, 92-93, 117-118: no frame, read() returns None
DriverReadNone(d) ==
    /\ cap[d] # "unused"
    /\ ~NotOpen(cap[d])
    /\ cap[d] = "opened"
    /\ dres' = <<d, "no_frame">>
    /\ UNCHANGED <<gvars, lock, slot, dvars, tvars, hpc, req, hlocals, nreq,
                   hist, spc, snaps>>

\* usb_camera.py 81-82, 91: the assert of _grab_encoded fails (no handle),
\* or the capture or encode primitive raises
DriverReadRaise(d) ==
    /\ cap[d] # "unused"
    /\ ~NotOpen(cap[d])
    /\ dres' = <<d, "read_error">>
    /\ UNCHANGED <<gvars, lock, slot, dvars, tvars, hpc, req, hlocals, nreq,
                   hist, spc, snaps>>

\* usb_camera.py 137-142: close() releases the handle when there is one
DriverClose(d) ==
    /\ cap[d] # "unused"
    /\ cap' = [cap EXCEPT ![d] = CloseCap(@)]
    /\ dres' = <<d, "closed">>
    /\ UNCHANGED <<gvars, lock, slot, opens, ndrv, tvars, hpc, req, hlocals,
                   nreq, hist, spc, snaps>>

\* usb_camera.py 139-142: release() raises; finally sets _cap to None and
\* the error leaves close()
DriverCloseRaise(d) ==
    /\ cap[d] = "opened"
    /\ cap' = [cap EXCEPT ![d] = "closed"]
    /\ dres' = <<d, "close_error">>
    /\ UNCHANGED <<gvars, lock, slot, opens, ndrv, tvars, hpc, req, hlocals,
                   nreq, hist, spc, snaps>>

DriverCall(d) ==
    \/ DriverOpenOk(d)
    \/ DriverOpenFail(d)
    \/ DriverReadNotOpen(d)
    \/ DriverReadFrame(d)
    \/ DriverReadNone(d)
    \/ DriverReadRaise(d)
    \/ DriverClose(d)
    \/ DriverCloseRaise(d)

\* ------------------------------------------ GET /camera/stream, 165-195
\* A client connects.  The generator of a StreamingResponse is driven by the
\* server apart from the workers that serve the other requests, one
\* generator per connected client.
CameraStream(s) ==
    /\ Served
    /\ spc[s] = "closed"
    /\ spc' = [spc EXCEPT ![s] = "sr_check"]
    /\ UNCHANGED <<gvars, lock, slot, dvars, tvars, hpc, req, hlocals, nreq,
                   hist, snaps, dres>>

\* line 170-171: if not grabber.enabled: 409; line 195: otherwise the
\* StreamingResponse is returned and its generator starts
StreamCheck(s) ==
    /\ spc[s] = "sr_check"
    /\ spc' = [spc EXCEPT ![s] = IF enabled THEN "sg_check" ELSE "refused"]
    /\ UNCHANGED <<gvars, lock, slot, dvars, tvars, hpc, req, hlocals, nreq,
                   hist, snaps, dres>>

GenEnabledNoBreak(s) ==
    /\ spc[s] = "sg_check"
    /\ spc' = [spc EXCEPT ![s] = "sg_lock"]
    /\ UNCHANGED <<gvars, lock, slot, dvars, tvars, hpc, req, hlocals, nreq,
                   hist, snaps, dres>>

\* line 182-184: while True: if not grabber.enabled: break (the generator
\* returns and the response body ends)
GenEnabled(s) ==
    /\ spc[s] = "sg_check"
    /\ spc' = [spc EXCEPT ![s] = IF enabled THEN "sg_lock" ELSE "ended"]
    /\ UNCHANGED <<gvars, lock, slot, dvars, tvars, hpc, req, hlocals, nreq,
                   hist, snaps, dres>>

\* line 185 and 101: get_latest_jpeg() enters `with self.lock`
GenLock(s) ==
    /\ spc[s] = "sg_lock"
    /\ CanAcquire(lock)
    /\ lock' = <<"stream", s>>
    /\ spc' = [spc EXCEPT ![s] = "sg_read"]
    /\ UNCHANGED <<gvars, slot, dvars, tvars, hpc, req, hlocals, nreq, hist,
                   snaps, dres>>

\* line 102 and 186: return self.latest_frame (the lock is released);
\* `if frame` yields a part, otherwise the generator sleeps
GenRead(s) ==
    /\ spc[s] = "sg_read"
    /\ lock' = Free
    /\ spc' = [spc EXCEPT ![s] =
                 IF latest_frame # Empty THEN "sg_yield" ELSE "sg_sleep"]
    /\ UNCHANGED <<gvars, slot, dvars, tvars, hpc, req, hlocals, nreq, hist,
                   snaps, dres>>

\* line 187-191: the part has been sent to the client and the generator is
\* resumed
GenYield(s) ==
    /\ spc[s] = "sg_yield"
    /\ spc' = [spc EXCEPT ![s] = "sg_check"]
    /\ UNCHANGED <<gvars, lock, slot, dvars, tvars, hpc, req, hlocals, nreq,
                   hist, snaps, dres>>

\* line 192-193: time.sleep(0.05) ends
GenSleep(s) ==
    /\ spc[s] = "sg_sleep"
    /\ spc' = [spc EXCEPT ![s] = "sg_check"]
    /\ UNCHANGED <<gvars, lock, slot, dvars, tvars, hpc, req, hlocals, nreq,
                   hist, snaps, dres>>

\* the response (409 or the ended stream) is complete; the client may
\* connect again
StreamFinish(s) ==
    /\ spc[s] \in {"refused", "ended"}
    /\ spc' = [spc EXCEPT ![s] = "closed"]
    /\ UNCHANGED <<gvars, lock, slot, dvars, tvars, hpc, req, hlocals, nreq,
                   hist, snaps, dres>>

Gen(s) ==
    \/ StreamCheck(s)
    \/ GenEnabled(s)
    \/ GenLock(s)
    \/ GenRead(s)
    \/ GenYield(s)
    \/ GenSleep(s)

\* ------------------------------------------------------ specification
Start(h) ==
    \/ StartCheck(h)
    \/ StartClear(h)
    \/ OpenDriverNew(h)
    \/ OpenDriverOk(h)
    \/ OpenDriverFail(h)
    \/ StartThread(h)
    \/ StartLaunch(h)

Stop(h) ==
    \/ StopSet(h)
    \/ StopIf(h)
    \/ StopJoin(h)
    \/ StopJoined(h)
    \/ StopJoinTimeout(h)
    \/ StopThread(h)
    \/ CloseDriver(h)
    \/ CloseDriverNone(h)
    \/ StopClearFrame(h)
    \/ StopClearMeta(h)

SetEnabled(h) ==
    \/ SetEnabledCheck(h)
    \/ SetEnabledStore(h)

Next ==
    \/ BootStart
    \/ \E t \in ThreadIds : Loop(t)
    \/ \E h \in Procs : Start(h) \/ Stop(h) \/ SetEnabled(h) \/ ReturnOk(h)
    \/ \E h \in Handlers : \E f \in BOOLEAN : CameraEnable(h, f)
    \/ \E h \in Handlers : CameraReopen(h) \/ ReopenCheck(h)
    \/ \E h \in Handlers : CameraFrame(h) \/ FrameCheck(h) \/ GetLatestLock(h)
                             \/ GetLatestRead(h)
    \/ \E h \in Handlers : Health(h) \/ HealthEnabled(h) \/ HealthRunning(h)
    \/ \E h \in Handlers : Finish(h)

Spec == Init /\ [][Next]_vars

\* set_enabled calls made one after another by a single caller, and nothing
\* else: no reopen, no second worker
NextSeq ==
    \/ BootStart
    \/ \E t \in ThreadIds : Loop(t)
    \/ \E h \in {Boot, 1} : Start(h) \/ Stop(h) \/ SetEnabled(h) \/ ReturnOk(h)
    \/ \E f \in BOOLEAN : CameraEnable(1, f)
    \/ Finish(1)

SpecSeq == Init /\ [][NextSeq]_vars

\* the published slot and its lock: the loop started at boot publishing,
\* PUT /camera/enable {false} clearing through stop(), and the readers of
\* /camera/frame
NextSlot ==
    \/ BootStart
    \/ \E t \in ThreadIds : Loop(t)
    \/ \E h \in Procs : Start(h) \/ Stop(h) \/ SetEnabled(h) \/ ReturnOk(h)
    \/ \E h \in Handlers : CameraEnable(h, FALSE)
    \/ \E h \in Handlers : CameraFrame(h) \/ FrameCheck(h) \/ GetLatestLock(h)
                             \/ GetLatestRead(h)
    \/ \E h \in Handlers : Finish(h)

SpecSlot == Init /\ [][NextSlot]_vars

\* the same with the readers of /camera/status next to those of
\* /camera/frame
NextStatus ==
    \/ BootStart
    \/ \E t \in ThreadIds : Loop(t)
    \/ \E h \in Procs : Start(h) \/ Stop(h) \/ SetEnabled(h) \/ ReturnOk(h)
    \/ \E h \in Handlers : CameraEnable(h, FALSE)
    \/ \E h \in Handlers : CameraFrame(h) \/ FrameCheck(h) \/ GetLatestLock(h)
                             \/ GetLatestRead(h)
    \/ \E h \in Handlers : CameraStatus(h) \/ StatusEnabled(h)
                             \/ StatusRunning(h) \/ GetMetaLock(h)
                             \/ GetMetaRead(h)
    \/ \E h \in Handlers : Finish(h)

SpecStatus == Init /\ [][NextStatus]_vars

\* POST /camera/reopen called again and again by a single caller after the
\* boot start, and nothing else: no second worker
NextReopen ==
    \/ BootStart
    \/ \E t \in ThreadIds : Loop(t)
    \/ \E h \in {Boot, 1} : Start(h) \/ Stop(h) \/ ReturnOk(h)
    \/ CameraReopen(1) \/ ReopenCheck(1)
    \/ Finish(1)

SpecReopen == Init /\ [][NextReopen]_vars

\* the driver alone under its direct caller; the grabber takes no step
NextDriver ==
    \/ DriverNew
    \/ \E d \in Drivers : DriverCall(d)

SpecDriver == Init /\ [][NextDriver]_vars

\* live streams: clients of /camera/stream next to one caller of
\* PUT /camera/enable and the loop
NextStream ==
    \/ BootStart
    \/ \E t \in ThreadIds : Loop(t)
    \/ \E h \in {Boot, 1} : Start(h) \/ Stop(h) \/ SetEnabled(h) \/ ReturnOk(h)
    \/ \E f \in BOOLEAN : CameraEnable(1, f)
    \/ Finish(1)
    \/ \E s \in Streams : CameraStream(s) \/ Gen(s) \/ StreamFinish(s)

SpecStream == Init /\ [][NextStream]_vars

\* a thread that holds the lock is scheduled and leaves its `with` block,
\* and every generator is resumed (its client keeps reading)
FairStream ==
    /\ SpecStream
    /\ WF_vars(\E t \in ThreadIds : LoopPublishMeta(t))
    /\ WF_vars(\E h \in {Boot, 1} : StopClearMeta(h))
    /\ \A s \in Streams : WF_vars(Gen(s))

\* ------------------------------------------------------------- claims
StopPcs == {"sp_set", "sp_if", "sp_join", "sp_wait", "sp_thread", "sp_close",
            "sp_none", "sp_lock", "sp_meta"}
Quiet(h) == hpc[h] \in {"idle", "done"}
AliveLoops == {t \in ThreadIds : IsAlive(t)}

\* C1: for one FrameGrabber at most one acquisition loop thread is alive at
\* any time, whatever the interleaving of start, stop, set_enabled and reopen
\* (stop() followed at once by start() included).
C1_AtMostOneLoop == Cardinality(AliveLoops) <= 1

\* C2: whenever no set_enabled or stop call is in progress, enabled = false
\* implies running = false and an empty published slot.
C2_DisabledMeansStopped ==
    (/\ ~enabled
     /\ \A h \in Procs : hpc[h] \notin StopPcs
     /\ \A h \in Procs : req[h] = "enable" => Quiet(h))
    => (~running /\ latest_frame = Empty /\ latest_meta = Empty)

\* C3: in every reachable state running = true implies that the grabber's
\* driver exists and its capture handle is open.
C3_RunningImpliesOpen ==
    running => (driver # None /\ cap[driver] = "opened")

\* C4: after a sequence of set_enabled calls made one after another, once
\* the launched loop has been scheduled (and as long as no loop ended by an
\* exception), running is true exactly when the most recent call that changed
\* enabled set it to true and its open() succeeded.
C4_RunningIffLastEnable ==
    (/\ \A h \in Procs : Quiet(h)
     /\ \A t \in ThreadIds : tpc[t] \notin {"created", "l_assert", "l_run"}
     /\ ~excSince)
    => (running <=> seqWant)

\* C5: after a stop() followed by a successful start(), the payload
\* get_latest_jpeg() returns (latest_frame) was never captured by the driver
\* instance of an earlier start: it is not older than the driver that
\* start() opened (driver instances are numbered in order of creation).
C5_NoStaleFrame ==
    (restartDrv # None /\ latest_frame # Empty)
    => latest_frame[1] >= restartDrv

\* C6: a reader that holds the lock (get_latest_jpeg, get_meta) never sees
\* latest_frame from one Measurement and latest_meta from another, nor one
\* of them cleared and the other not.
C6_ReaderSeesWholePair ==
    \A h \in Handlers : lock = <<"read", h>> => latest_frame = latest_meta

\* C6 witness: a reader waits for the lock while the loop is between its two
\* writes, the slot holding the new frame and the old metadata.
C6_ReaderWaitsOnPublish ==
    \E h \in Handlers : \E t \in ThreadIds :
        /\ hpc[h] \in {"fr_lock", "cs_lock"}
        /\ lock = <<"loop", t>>
        /\ latest_frame # latest_meta

\* C7: the device is never closed while a read on it is in progress: no
\* loop is inside driver.read() on a driver whose handle was released.
C7_NoCloseDuringRead ==
    \A t \in ThreadIds : tpc[t] = "l_read" => cap[rd[t]] = "opened"

\* C8: when open() fails inside start() the failure reaches the caller (a
\* 500 from PUT /camera/enable) and running stays false: no state with
\* running = true refers to a driver whose open() failed.
C8_FailedOpenNotRunning ==
    /\ \A h \in Handlers :
         (hpc[h] = "done" /\ req[h] = "enable" /\ resp[h] # 200) => resp[h] = 500
    /\ (driver # None /\ cap[driver] = "unopened" /\ opens[driver] > 0)
         => ~running

\* C9: once read() has raised inside the loop and that loop has ended,
\* running is false, and /health answers, until a new start() succeeds.
C9_RunningFalseAfterLoopException ==
    /\ (excSince /\ \A t \in ThreadIds : tpc[t] # "l_finally") => ~running
    /\ \A h \in Handlers :
         (hpc[h] = "done" /\ req[h] = "health") => resp[h] = 200

\* C10: GET /camera/frame answers 409 when disabled, 404 when enabled and
\* no frame was published since the last start, otherwise 200 with the
\* published payload: while enabled with nothing published since the last
\* start the slot it reads is empty, and its answer is one of the three.
C10_FrameOutcome ==
    /\ \A h \in Handlers :
         (hpc[h] = "done" /\ req[h] = "frame") =>
            \/ resp[h] = 409 /\ fbody[h] = Empty
            \/ resp[h] = 404 /\ fbody[h] = Empty
            \/ resp[h] = 200 /\ fbody[h] # Empty
    /\ (enabled /\ ~pubSinceStart) => latest_frame = Empty

\* what a stream does at its two looks at enabled, and after it has ended
RefusedWhenDisabled(s) ==
    (spc[s] = "sr_check" /\ ~enabled /\ spc'[s] # spc[s])
        => spc'[s] = "refused"
NoPartAfterEnd(s) ==
    spc[s] \in {"refused", "ended"} => spc'[s] \notin GenPcs

\* C11 as stated: a stream request made while enabled is false gets 409 and
\* opens no stream; once the service is disabled every open stream ends
\* (under fair scheduling) and sends no part after the look at enabled that
\* found it false; each stream on its own.
C11_StreamEndsOnceDisabled ==
    /\ [][\A s \in Streams :
            /\ RefusedWhenDisabled(s)
            /\ NoPartAfterEnd(s)
            /\ (spc[s] = "sg_check" /\ ~enabled /\ spc'[s] # spc[s])
                  => spc'[s] = "ended"]_vars
    /\ \A s \in Streams :
          (spc[s] \in GenPcs /\ ~enabled) ~> (spc[s] \notin GenPcs)

\* C11 amended: a stream request made while enabled is false gets 409 and
\* opens no stream; an open stream ends at the first look at enabled that
\* finds it false and sends no part after that; under fair scheduling a
\* stream open while the service is disabled ends unless the service is
\* enabled again first; each stream on its own.
C11_StreamEndsWhenSeenDisabled ==
    /\ [][\A s \in Streams :
            /\ RefusedWhenDisabled(s)
            /\ NoPartAfterEnd(s)
            /\ (spc[s] = "sg_check" /\ ~enabled /\ spc'[s] # spc[s])
                  => spc'[s] = "ended"]_vars
    /\ \A s \in Streams :
          (spc[s] \in GenPcs /\ ~enabled) ~> (spc[s] \notin GenPcs \/ enabled)

\* C11 witness: the service is disabled, one stream has ended on seeing it
\* and another one, still suspended at its yield, has not looked yet.
C11_OneEndedOtherYielding ==
    \E s1, s2 \in Streams :
        /\ ~enabled
        /\ spc[s1] = "ended"
        /\ spc[s2] = "sg_yield"

StartPcs == {"st_check", "st_clear", "st_new", "st_open", "st_thread",
             "st_launch"}

\* C12: POST /camera/reopen answers 409 when enabled is false and then
\* changes nothing in the grabber; when enabled is true it runs stop() and
\* then start(); it answers ok when start() returned and 500 when start()
\* raised, and at that 500 running is false and enabled is still true.
C12_ReopenOutcome ==
    [][\A h \in Handlers : req[h] = "reopen" =>
         /\ (hpc[h] = "ro_check" /\ hpc'[h] # "ro_check") =>
               IF enabled
                 THEN hpc'[h] = "sp_set"
                 ELSE /\ hpc'[h] = "done" /\ resp'[h] = 409
                      /\ UNCHANGED <<gvars, lock, slot, dvars, tvars>>
         /\ (hpc[h] = "sp_meta" /\ hpc'[h] # "sp_meta") => hpc'[h] = "st_check"
         /\ (hpc[h] = "ret" /\ hpc'[h] = "done") => resp'[h] = 200
         /\ (hpc[h] # "done" /\ hpc'[h] = "done" /\ resp'[h] = 500) =>
               /\ hpc[h] \in StartPcs
               /\ ~running'
               /\ enabled']_vars

\* C13: set_enabled(flag) with flag equal to enabled returns at once: it
\* enters neither start() nor stop() and leaves enabled, running, driver,
\* thread and the slot as they are; with a different flag it stores the flag
\* in enabled and enters start() when the flag is true, stop() when false.
C13_SetEnabledEffect ==
    [][\A h \in Handlers : req[h] = "enable" =>
         /\ (hpc[h] = "se_check" /\ hpc'[h] # "se_check") =>
               /\ hpc'[h] = IF flag[h] = enabled THEN "ret" ELSE "se_set"
               /\ UNCHANGED <<gvars, lock, slot, dvars, tvars>>
         /\ (hpc[h] = "se_set" /\ hpc'[h] # "se_set") =>
               /\ enabled' = flag[h]
               /\ hpc'[h] = IF flag[h] THEN "st_check" ELSE "sp_set"
               /\ UNCHANGED <<running, driver, thread, slot, dvars, tvars>>
         /\ (hpc[h] = "ret" /\ hpc'[h] # "ret") =>
               UNCHANGED <<gvars, lock, slot, dvars, tvars>>]_vars

\* C13 witness: set_enabled(False) has returned on a disabled grabber on
\* which no stop() ever ran.
C13_DisableWasNoOp ==
    /\ hpc[1] = "ret" /\ req[1] = "enable" /\ ~flag[1]
    /\ ~enabled /\ ~hadStop

\* the grabber as a stop() leaves it
Stopped ==
    /\ thread = None /\ driver = None /\ stop_evt
    /\ latest_frame = Empty /\ latest_meta = Empty

C15_OneOpenDriver ==
    /\ Cardinality({d \in Drivers : cap[d] = "opened"}) <= 1
    /\ \A d \in Drivers : cap[d] = "opened" => driver = d
    /\ \A d \in Drivers : opens[d] <= 1

\* C16: no two executions of start() and/or stop() overlap: at most one
\* caller has run a statement of start() or stop() and not yet left it (a
\* caller that has only arrived at the call is not counted), so a close
\* never interleaves with an open, and a start() launches its loop only
\* after the stop() before it has returned.
C16_StartStopExclusive ==
    Cardinality({h \in Procs :
        hpc[h] \in (StartPcs \cup StopPcs) \ {"st_check", "sp_set"}}) <= 1

\* C17: the lock is never held while a capture is in progress: a loop that
\* is entering or inside driver.read() (pacing sleep included) or in its
\* retry sleep does not hold the lock.
C17_NoLockDuringCapture ==
    \A t \in ThreadIds :
        tpc[t] \in {"l_call", "l_read", "l_sleep"} => lock # <<"loop", t>>

\* C17 witness: the loop has published a frame and is inside driver.read()
\* again while a reader (get_latest_jpeg or get_meta) holds the lock.
C17_ReaderHoldsLockDuringCapture ==
    \E t \in ThreadIds : \E h \in Handlers :
        /\ tpc[t] = "l_read"
        /\ latest_frame # Empty
        /\ lock = <<"read", h>>

\* C18: in the loop a read() that yields no frame leaves latest_frame and
\* latest_meta as they are and leads, through the retry sleep, to the next
\* read() unless stop was signalled; a read() that yields a Measurement is
\* followed by latest_frame and latest_meta both taking that Measurement's
\* data and meta; and no step other than the loop's publish and stop()'s
\* clear changes the slot.
C18_LoopSlotEffect ==
    [][/\ \A t \in ThreadIds :
            /\ (tpc[t] = "l_read" /\ tpc'[t] = "l_sleep") => UNCHANGED slot
            /\ (tpc[t] = "l_sleep" /\ tpc'[t] # "l_sleep") =>
                  (tpc'[t] = "l_while" /\ UNCHANGED slot)
            /\ (tpc[t] = "l_while" /\ tpc'[t] # "l_while") =>
                  tpc'[t] = IF stop_evt THEN "l_finally" ELSE "l_call"
            /\ (tpc[t] = "l_read" /\ tpc'[t] = "l_pub") =>
                  (m'[t] # NoMeasurement /\ UNCHANGED slot)
            /\ (tpc[t] = "l_pub" /\ tpc'[t] # "l_pub") =>
                  (tpc'[t] = "l_pub2" /\ latest_frame' = m[t].data)
            /\ (tpc[t] = "l_pub2" /\ tpc'[t] # "l_pub2") =>
                  (latest_frame' = m[t].data /\ latest_meta' = m[t].meta)
       /\ slot' # slot =>
            \/ \E t \in ThreadIds :
                 tpc[t] \in {"l_pub", "l_pub2"} /\ tpc'[t] # tpc[t]
            \/ \E h \in Procs :
                 hpc[h] \in {"sp_lock", "sp_meta"} /\ hpc'[h] # hpc[h]]_vars

\* C18 witness: a read() has just yielded no frame (the loop is in its
\* retry sleep) and the slot still holds the Measurement published before.
C18_NoFrameKeepsSlot ==
    \E t \in ThreadIds :
        /\ tpc[t] = "l_sleep"
        /\ latest_frame # Empty
        /\ latest_meta = latest_frame

\* C19: GET /camera/status reads enabled, running and the metadata under
\* the lock, so that what it answers is a snapshot: the three values it
\* reports were the grabber's enabled, running and latest_meta together, in
\* one state that existed while the request was served.
C19_StatusIsSnapshot ==
    \A h \in Handlers :
        (hpc[h] = "done" /\ req[h] = "status") =>
            <<sEn[h] = "T", sRun[h] = "T", smeta[h]>> \in snaps[h]

ReadOutcomes == {"measurement", "no_frame", "not_open", "read_error"}

StartFailed ==
    driver # None /\ cap[driver] = "unopened" /\ opens[driver] > 0

\* the calls that run stop(): reopen and set_enabled(False)
CallsStop(h) == req[h] = "reopen" \/ (req[h] = "enable" /\ ~flag[h])

\* C21: when start() raises at boot or inside set_enabled(True), enabled is
\* true and running is false; in the state that leaves, a further
\* set_enabled(True) returns at line 93 without entering start() and
\* without changing the grabber, nothing enters start(), and the state ends
\* only by the stop() of a reopen or of a set_enabled(False).
C21_FailedStartKeepsSwitchOn ==
    [][/\ \A h \in Procs :
            (/\ hpc[h] \in StartPcs /\ hpc'[h] = "done" /\ resp'[h] = 500
             /\ req[h] \in {"boot", "enable"})
              => (enabled' /\ ~running')
       /\ StartFailed =>
            /\ \A h \in Handlers :
                 (/\ req[h] = "enable" /\ flag[h]
                  /\ hpc[h] = "se_check" /\ hpc'[h] # "se_check")
                   => /\ hpc'[h] = "ret"
                      /\ UNCHANGED <<gvars, lock, slot, dvars, tvars>>
            /\ \A h \in Procs :
                 hpc'[h] = "st_check" => hpc[h] = "st_check"
            /\ ~StartFailed' =>
                 \E h \in Handlers : hpc[h] \in StopPcs /\ CallsStop(h)]_vars
====
